---- MODULE Spec2Model ----
(***************************************************************************)
(* Verification model of the apollo11 Direct3D 12 sample:                  *)
(*   - Game.cpp: the frame driver (Tick / Update / Render), the window and *)
(*     device message handlers and the creation of the GPU resources;      *)
(*   - Shaders/Shader.hlsli: the tessellation, domain and pixel stages.    *)
(* DX::DeviceResources and DX::StepTimer are helper classes of the         *)
(* repository whose sources are not among the modelled files; their        *)
(* behaviour is modelled after the Direct3D 12 application template they   *)
(* come from and is marked as such below.                                  *)
(***************************************************************************)
EXTENDS Integers, Sequences, FiniteSets, TLC

VARIABLES
    pc,                 \* position of the CPU thread: "constructed", "idle", or inside Render
    lastCall,           \* name of the handler that ran most recently
    trace,              \* API calls issued by the most recent handler, in order
    m_frameCount,       \* StepTimer frame count (m_timer.GetFrameCount())
    dr,                 \* DX::DeviceResources: back-buffer index/count, fence values, output size
    gpu,                \* command queue in flight and the completed values of both fences
    m_fence,            \* Game::m_fence: "null" or "created"
    m_fenceEvent,       \* Game::m_fenceEvent is a valid event handle
    m_cbMappedData,     \* Game::m_cbMappedData: "null" or "mapped"
    m_projectionMatrix, \* Game::m_projectionMatrix, as the aspect ratio it is built from
    render,             \* locals of the Render call in progress
    signalled,          \* values Render passed to Signal since the last resize / restore
    cbWrite,            \* the last constant-buffer write: slot, ring size, slot still in flight
    c_numDrawCalls,     \* Game::c_numDrawCalls (constant of Game.h)
    invalidUses,        \* calls made so far on a fence, pointer or event that did not exist
    camera,             \* Game::m_camYaw, m_camPitch, m_camPosition and the camera axes
    update,             \* one Update call on arbitrary inputs (update-check specification)
    shader,             \* the shader stage evaluated last (shader specification)
    probe               \* one Render call on arbitrary inputs (render-check specification)

vars == <<pc, lastCall, trace, m_frameCount, dr, gpu, m_fence, m_fenceEvent,
          m_cbMappedData, m_projectionMatrix, render, signalled, cbWrite,
          c_numDrawCalls, invalidUses, camera, update, shader, probe>>

gameVars == <<pc, lastCall, trace, m_frameCount, dr, gpu, m_fence, m_fenceEvent,
              m_cbMappedData, m_projectionMatrix, render, signalled, cbWrite,
              c_numDrawCalls, invalidUses, camera, update>>

-----------------------------------------------------------------------------
(* Bounds of the model *)

MaxBackBuffers == 3
MaxNumDrawCalls == 2
MaxFenceValue == 8
MaxFrameIdx == 6

\* Window sizes offered to Initialize and OnWindowSizeChanged.
Sizes == { <<320, 200>>, <<640, 400>>, <<640, 200>> }

-----------------------------------------------------------------------------
(* Fixed-point arithmetic: a float x is held as the integer floor(x * One) *)

One == 1024

RECURSIVE ISqrtIter(_, _, _)
ISqrtIter(x, lo, hi) ==
    IF lo >= hi THEN lo
    ELSE LET mid == (lo + hi + 1) \div 2
         IN  IF mid * mid <= x THEN ISqrtIter(x, mid, hi)
                               ELSE ISqrtIter(x, lo, mid - 1)

\* floor(sqrt(x)) for 0 <= x < 2^31
ISqrt(x) == ISqrtIter(x, 0, 46340)

-----------------------------------------------------------------------------
(* Unsigned 64-bit arithmetic (uint64_t / UINT64, the type of fence values). *)
(* A value is held as its four 16-bit limbs, most significant first:         *)
(* <<a, b, c, d>> stands for a * 2^48 + b * 2^32 + c * 2^16 + d.             *)

LimbBase == 65536
LimbMax == LimbBase - 1

\* Largest value of uint64_t, 2^64 - 1.
UIntMax == <<LimbMax, LimbMax, LimbMax, LimbMax>>

\* Conversion of a signed int to uint64_t: x for x >= 0, x + 2^64 for x < 0.
ToUnsigned(x) ==
    IF x >= 0
    THEN <<0, 0, x \div LimbBase, x % LimbBase>>
    ELSE LET y == 0 - (x + 1)
         IN  <<LimbMax, LimbMax, LimbMax - (y \div LimbBase), LimbMax - (y % LimbBase)>>

\* a > b and a >= b in uint64_t.
UnsignedGreater(a, b) ==
    \E i \in 1..4 : a[i] > b[i] /\ \A j \in 1..(i - 1) : a[j] = b[j]
UnsignedGreaterEq(a, b) == a = b \/ UnsignedGreater(a, b)

\* a - b in uint64_t (modulo 2^64: wraps when a < b).
UnsignedSub(a, b) ==
    LET d4 == a[4] - b[4]
        b4 == IF d4 < 0 THEN 1 ELSE 0
        d3 == a[3] - b[3] - b4
        b3 == IF d3 < 0 THEN 1 ELSE 0
        d2 == a[2] - b[2] - b3
        b2 == IF d2 < 0 THEN 1 ELSE 0
        d1 == a[1] - b[1] - b2
    IN  <<d1 % LimbBase, d2 % LimbBase, d3 % LimbBase, d4 % LimbBase>>

\* The fence values of the runs checked stay below 2^31; the state holds
\* such a value as the number it is.
FenceValue(u) == u[3] * LimbBase + u[4]

-----------------------------------------------------------------------------
(* GPU: executes the command queue in submission order *)

GpuExec(g, e) ==
    CASE e.kind = "frame"      -> g
      [] e.kind = "drSignal"   -> [g EXCEPT !.drFence = e.value]
      [] e.kind = "gameSignal" -> [g EXCEPT !.gameFence = e.value]

GpuExecHead(g) == [GpuExec(g, Head(g.queue)) EXCEPT !.queue = Tail(g.queue)]

RECURSIVE GpuDrain(_)
GpuDrain(g) == IF g.queue = <<>> THEN g ELSE GpuDrain(GpuExecHead(g))

Submit(g, kind, value) ==
    [g EXCEPT !.queue = Append(@, [kind |-> kind, value |-> value])]

-----------------------------------------------------------------------------
(* DX::DeviceResources, operating on w = [dr, gpu] *)

\* Signal the device fence with the current frame's value, block until the
\* GPU has reached it, then advance the value.
WaitForGpu(w) ==
    LET i  == w.dr.m_backBufferIndex
        fv == w.dr.m_fenceValues[i]
    IN  [dr  |-> [w.dr EXCEPT !.m_fenceValues[i] = fv + 1],
         gpu |-> GpuDrain(Submit(w.gpu, "drSignal", fv))]

\* New device, queue and device fence; the fence starts at the current value.
DR_CreateDeviceResources(w) ==
    LET i  == w.dr.m_backBufferIndex
        fv == w.dr.m_fenceValues[i]
    IN  [dr  |-> [w.dr EXCEPT !.m_fenceValues[i] = fv + 1],
         gpu |-> [queue |-> <<>>, drFence |-> fv, gameFence |-> 0]]

\* (Re)create the swap chain buffers: flush the GPU, level the fence values,
\* restart at back buffer 0.
DR_CreateWindowSizeDependentResources(w) ==
    LET w1 == WaitForGpu(w)
        fv == w1.dr.m_fenceValues[w1.dr.m_backBufferIndex]
    IN  [dr  |-> [w1.dr EXCEPT !.m_fenceValues = [n \in DOMAIN @ |-> fv],
                               !.m_backBufferIndex = 0],
         gpu |-> w1.gpu]

\* TRUE iff the size differs from the current output size.
DR_SizeChanges(d, size) == size # d.m_outputSize

\* WindowSizeChanged: nothing but FALSE for an unchanged size, otherwise the
\* size-dependent resources are rebuilt.
DR_WindowSizeChanged(w, size) ==
    IF DR_SizeChanges(w.dr, size)
    THEN DR_CreateWindowSizeDependentResources(
             [w EXCEPT !.dr.m_outputSize = size])
    ELSE w

GetCurrentFrameIndex(d) == d.m_backBufferIndex
GetBackBufferCount(d) == d.m_backBufferCount

-----------------------------------------------------------------------------
(* Game: resource creation *)

RECURSIVE GCD(_, _)
GCD(a, b) == IF b = 0 THEN a ELSE GCD(b, a % b)

\* XMMatrixPerspectiveFovLH(XM_PIDIV4, right / bottom, 0.01, 100): with the
\* other arguments fixed the matrix is determined by the aspect ratio.
Perspective(size) ==
    LET g == GCD(size[1], size[2]) IN <<size[1] \div g, size[2] \div g>>

\* The part of CreateDeviceDependentResources the fence bookkeeping depends
\* on: flush of the uploads and creation of m_fence at the current frame index.
CreateDeviceDependentResources(w) ==
    LET w1 == WaitForGpu(w)
    IN  [w1 EXCEPT !.gpu.gameFence = GetCurrentFrameIndex(w1.dr)]

\* Value signalled by CreateWindowSizeDependentResources.
ResizeSignalValue(d) == GetCurrentFrameIndex(d)

\* API calls issued by CreateWindowSizeDependentResources.
ResizeCalls == <<"XMMatrixPerspectiveFovLH", "Signal">>

\* The size-dependent resources rebuilt without the Signal on m_fence.
CreateWindowSizeDependentResources_NoSignal(w) == w

\* Lines 583-596: the Signal on m_fence; the projection matrix is assigned
\* Perspective(size) by the action that applies this operator.
CreateWindowSizeDependentResources(w) ==
    [w EXCEPT !.gpu = Submit(@, "gameSignal", ResizeSignalValue(w.dr))]

-----------------------------------------------------------------------------
(* Game::Render, first part: the guard and the "GPU keeping up" check *)

\* Render without its first-update guard.
RenderGuard_Missing(frameCount) == TRUE

\* Line 138: nothing is rendered before the first Update.
RenderGuard(frameCount) == frameCount # 0

\* The check without its first comparison (frameIdx > completedValue).
RenderMustWait_NoOrderCheck(frameIdx, numBackBuffers, completedValue) ==
    UnsignedGreater(UnsignedSub(ToUnsigned(frameIdx), ToUnsigned(completedValue)),
                    ToUnsigned(numBackBuffers))

\* Line 149: (frameIdx > completedValue) && (frameIdx - completedValue > numBackBuffers)
\* frameIdx and numBackBuffers are int, completedValue is uint64_t: both
\* comparisons are made in the unsigned type, the subtraction too.
RenderMustWait(frameIdx, numBackBuffers, completedValue) ==
    /\ UnsignedGreater(ToUnsigned(frameIdx), ToUnsigned(completedValue))
    /\ UnsignedGreater(UnsignedSub(ToUnsigned(frameIdx), ToUnsigned(completedValue)),
                       ToUnsigned(numBackBuffers))

\* Line 152: the value handed to SetEventOnCompletion (int converted to UINT64).
WaitValue(frameIdx, numBackBuffers) == ToUnsigned(frameIdx - numBackBuffers)

\* The wait on the event returns once the fence has reached the value given
\* to SetEventOnCompletion.
WaitReturns(fence, waitValue) == UnsignedGreaterEq(ToUnsigned(fence), waitValue)

\* The slot index without the wrap to the ring.
CbIndex_NoModulo(numDrawCalls, frameIdx, numBackBuffers) ==
    numDrawCalls * frameIdx

\* The slot index without the frame index: every frame uses the first slots.
CbIndex_SingleSlot(numDrawCalls, frameIdx, numBackBuffers) ==
    numDrawCalls * 0

\* Line 168: cbIndex = c_numDrawCalls * (frameIdx % numBackBuffers)
CbIndex(numDrawCalls, frameIdx, numBackBuffers) ==
    numDrawCalls * (frameIdx % numBackBuffers)

\* Line 417: number of PaddedConstantBuffer slots in the upload heap.
CbSlots(numDrawCalls, numBackBuffers) == numDrawCalls * numBackBuffers

NoRender == [frameIdx |-> 0, numBackBuffers |-> 0, completedValue |-> 0,
             waits |-> FALSE, waitValue |-> ToUnsigned(0), currentFenceValue |-> 0]

\* Lines 138-154 up to the blocking wait: the position Render reaches, the
\* calls it has issued and its locals.
RenderBegin(frameCount, frameIdx, numBackBuffers, completedValue) ==
    IF ~RenderGuard(frameCount)
    THEN [pc |-> "idle", trace |-> <<>>, locals |-> NoRender]
    ELSE LET w == RenderMustWait(frameIdx, numBackBuffers, completedValue)
         IN  [pc     |-> IF w THEN "fenceWait" ELSE "prepare",
              trace  |-> IF w THEN <<"GetCompletedValue", "SetEventOnCompletion">>
                              ELSE <<"GetCompletedValue">>,
              locals |-> [frameIdx |-> frameIdx,
                          numBackBuffers |-> numBackBuffers,
                          completedValue |-> completedValue,
                          waits |-> w,
                          waitValue |-> IF w THEN WaitValue(frameIdx, numBackBuffers)
                                             ELSE ToUnsigned(0),
                          currentFenceValue |-> 0]]

\* Render with the draw issued twice.
RenderCalls_DrawTwice ==
    <<"Prepare", "Clear", "memcpy", "SetGraphicsRootConstantBufferView",
      "DrawIndexedInstanced", "DrawIndexedInstanced", "Present">>

\* Lines 157-205: the calls Render issues from Prepare to Present.
RenderCalls ==
    <<"Prepare", "Clear", "memcpy", "SetGraphicsRootConstantBufferView",
      "DrawIndexedInstanced", "Present">>

\* Line 211: the value Render signals on m_fence.
RenderSignalValue(frameIdx) == ToUnsigned(frameIdx)

\* TRUE iff a frame bound to constant-buffer slot cbIndex is still queued.
SlotInFlight(g, cbIndex) ==
    \E k \in 1..Len(g.queue) :
        g.queue[k].kind = "frame" /\ g.queue[k].value = cbIndex

-----------------------------------------------------------------------------
(* Game::Update: the free-fly camera.  Angles, times and lengths are fixed-  *)
(* point numbers; a vector is the triple of its x, y and z components.       *)

\* const float moveSpeed = 5.0f
moveSpeed == 5
\* mouse.x * elapsedTime / 10.0f
MouseDivisor == 10

\* Product of two fixed-point numbers.
Mul(a, b) == (a * b) \div One

Pi == (355 * One) \div 113

\* sin on [0, Pi], by the rational approximation 16a(Pi-a) / (5Pi^2 - 4a(Pi-a))
SinHalfTurn(a) ==
    LET q == a * (Pi - a)
    IN  (16 * q) \div ((5 * Pi * Pi - 4 * q) \div One)

Sin(x) ==
    LET a == x % (2 * Pi)
    IN  IF a <= Pi THEN SinHalfTurn(a) ELSE 0 - SinHalfTurn(a - Pi)

Cos(x) == Sin(x + Pi \div 2)

\* XMMatrixRotationRollPitchYaw(pitch, yaw, 0.0f): the rows of Rx(pitch) * Ry(yaw)
XMMatrixRotationRollPitchYaw(pitch, yaw) ==
    LET sp == Sin(pitch)
        cp == Cos(pitch)
        sy == Sin(yaw)
        cy == Cos(yaw)
    IN  << <<cy, 0, 0 - sy>>,
           <<Mul(sp, sy), cp, Mul(sp, cy)>>,
           <<Mul(cp, sy), 0 - sp, Mul(cp, cy)>> >>

\* XMVector3TransformCoord(v, m) for a rotation m: the row vector v times m
XMVector3TransformCoord(v, m) ==
    [j \in 1..3 |-> Mul(v[1], m[1][j]) + Mul(v[2], m[2][j]) + Mul(v[3], m[3][j])]

XMVector3Normalize(v) ==
    LET len == ISqrt(v[1] * v[1] + v[2] * v[2] + v[3] * v[3])
    IN  IF len = 0 THEN v ELSE [j \in 1..3 |-> (v[j] * One) \div len]

\* scalar * vector and vector + vector
VScale(k, v) == [j \in 1..3 |-> Mul(k, v[j])]
VAdd(a, b) == [j \in 1..3 |-> a[j] + b[j]]

\* The default camera axes (Game.h)
DEFAULT_FORWARD_VECTOR == <<0, 0, One>>
DEFAULT_RIGHT_VECTOR == <<One, 0, 0>>
DEFAULT_UP_VECTOR == <<0, One, 0>>

\* The camera before CreateDeviceDependentResources has set it.
NoCamera ==
    [m_camYaw |-> 0, m_camPitch |-> 0, m_camPosition |-> <<0, 0, 0>>,
     m_camLookTarget |-> <<0, 0, 0>>, m_camRight |-> <<0, 0, 0>>,
     m_camUp |-> <<0, 0, 0>>, m_camForward |-> <<0, 0, 0>>]

\* CreateDeviceDependentResources, "Initialize camera values"
InitializeCamera ==
    [m_camYaw |-> 0 - 3 * One, m_camPitch |-> (37 * One) \div 100,
     m_camPosition |-> <<0, 0, 200 * One>>,
     m_camLookTarget |-> <<0, 0, 0>>, m_camRight |-> DEFAULT_RIGHT_VECTOR,
     m_camUp |-> DEFAULT_UP_VECTOR, m_camForward |-> DEFAULT_FORWARD_VECTOR]

VerticalFactor_BackwardFirst(keyboard) ==
    IF keyboard.S THEN 0 - 1 ELSE IF keyboard.W THEN 1 ELSE 0

\* keyboard.W ? 1.0f : keyboard.S ? -1.0f : 0.0f
VerticalFactor(keyboard) ==
    IF keyboard.W THEN 1 ELSE IF keyboard.S THEN 0 - 1 ELSE 0

\* keyboard.A ? -1.0f : keyboard.D ? 1.0f : 0.0f
HorizontalFactor(keyboard) ==
    IF keyboard.A THEN 0 - 1 ELSE IF keyboard.D THEN 1 ELSE 0

VerticalMove(keyboard, elapsedTime) ==
    VerticalFactor(keyboard) * elapsedTime * moveSpeed

HorizontalMove(keyboard, elapsedTime) ==
    HorizontalFactor(keyboard) * elapsedTime * moveSpeed

\* if (keyboard.Escape) ExitGame();
UpdateCalls(keyboard) == IF keyboard.Escape THEN <<"ExitGame">> ELSE <<>>

\* Game::Update(timer), with the keyboard and mouse states it polls and the
\* timer's elapsed seconds: the camera it leaves.  (m_viewMatrix is a
\* function of the position, look target and up vector.)
Update(cam, keyboard, mouse, elapsedTime) ==
    LET verticalMove   == VerticalMove(keyboard, elapsedTime)
        horizontalMove == HorizontalMove(keyboard, elapsedTime)
        yaw            == cam.m_camYaw + (mouse.x * elapsedTime) \div MouseDivisor
        pitch          == cam.m_camPitch + (mouse.y * elapsedTime) \div MouseDivisor
        rotation       == XMMatrixRotationRollPitchYaw(pitch, yaw)
        lookTarget     == XMVector3Normalize(
                              XMVector3TransformCoord(DEFAULT_FORWARD_VECTOR, rotation))
        right          == XMVector3TransformCoord(DEFAULT_RIGHT_VECTOR, rotation)
        up             == XMVector3TransformCoord(DEFAULT_UP_VECTOR, rotation)
        forward        == XMVector3TransformCoord(DEFAULT_FORWARD_VECTOR, rotation)
        position       == VAdd(VAdd(cam.m_camPosition, VScale(horizontalMove, right)),
                               VScale(verticalMove, forward))
    IN  [m_camYaw |-> yaw, m_camPitch |-> pitch, m_camPosition |-> position,
         m_camLookTarget |-> VAdd(position, lookTarget), m_camRight |-> right,
         m_camUp |-> up, m_camForward |-> forward]

\* Input states and frame times offered to Update.
Keyboards == [W : BOOLEAN, A : BOOLEAN, S : BOOLEAN, D : BOOLEAN, Escape : BOOLEAN]
MouseDeltas == {0 - 7, 0, 4}
Mice == [x : MouseDeltas, y : MouseDeltas]
ElapsedTimes == {One \div 60, One \div 30}

\* The inputs offered to Tick in the frame-driver specification: the devices
\* at rest, W held down while the mouse moves, and Escape pressed.
IdleKeyboard ==
    [W |-> FALSE, A |-> FALSE, S |-> FALSE, D |-> FALSE, Escape |-> FALSE]
IdleMouse == [x |-> 0, y |-> 0]
TickInputs ==
    { [keyboard |-> IdleKeyboard, mouse |-> IdleMouse, elapsedTime |-> One \div 60],
      [keyboard |-> [IdleKeyboard EXCEPT !.W = TRUE], mouse |-> [x |-> 4, y |-> 0 - 7],
       elapsedTime |-> One \div 30],
      [keyboard |-> [IdleKeyboard EXCEPT !.Escape = TRUE], mouse |-> IdleMouse,
       elapsedTime |-> One \div 60] }

-----------------------------------------------------------------------------
(* Lifetime of the fence, the mapped constant buffer and the fence event *)

\* The objects of Game a handler uses, with the record of the uses that found
\* their object missing.
GameObjects(fence, cbMappedData, fenceEvent, invalid) ==
    [m_fence |-> fence, m_cbMappedData |-> cbMappedData,
     m_fenceEvent |-> fenceEvent, invalidUses |-> invalid]

\* A call through m_fence (GetCompletedValue, SetEventOnCompletion, or
\* m_fence.Get() handed to CommandQueue::Signal).
UseFence(g, call) ==
    IF g.m_fence = "created" THEN g
    ELSE [g EXCEPT !.invalidUses = @ \cup {call}]

\* A write through m_cbMappedData.
UseCbMappedData(g, call) ==
    IF g.m_cbMappedData = "mapped" THEN g
    ELSE [g EXCEPT !.invalidUses = @ \cup {call}]

\* A wait on m_fenceEvent.
UseFenceEvent(g, call) ==
    IF g.m_fenceEvent THEN g
    ELSE [g EXCEPT !.invalidUses = @ \cup {call}]

\* CreateDeviceDependentResources: maps the constant-buffer upload heap and
\* creates the fence.
CreateDeviceObjects(g) ==
    [g EXCEPT !.m_cbMappedData = "mapped", !.m_fence = "created"]

\* CreateWindowSizeDependentResources: signals m_fence on the queue.
SignalOnResize(g) == UseFence(g, "Signal")

\* Initialize: the event is created after the resources.
CreateFenceEvent(g) == [g EXCEPT !.m_fenceEvent = TRUE]

\* Game::OnDeviceLost
OnDeviceLost(g) == [g EXCEPT !.m_cbMappedData = "null", !.m_fence = "null"]

OnDeviceRestored_NoDeviceResources(g) == SignalOnResize(g)

\* Game::OnDeviceRestored
OnDeviceRestored(g) == SignalOnResize(CreateDeviceObjects(g))

\* Render up to its first blocking point: the fence is read when the guard
\* lets Render run, and waited on when the wait branch is taken.
RenderFenceUses(g, r) ==
    IF r.pc = "idle" THEN g
    ELSE LET g1 == UseFence(g, "GetCompletedValue")
         IN  IF r.pc = "fenceWait"
             THEN UseFenceEvent(UseFence(g1, "SetEventOnCompletion"),
                                "WaitForSingleObjectEx")
             ELSE g1

-----------------------------------------------------------------------------
(* Actions of the frame driver *)

ShaderIdle == [stage |-> "none"]
ProbeIdle == [pc |-> "none"]
UpdateIdle == [pc |-> "none"]
NoCbWrite == [cbIndex |-> 0, slots |-> 0, inFlight |-> FALSE, mapped |-> TRUE,
              count |-> 0]

Init ==
    /\ pc = "constructed"
    /\ lastCall = "Game"
    /\ trace = <<>>
    /\ m_frameCount = 0
    /\ \E n \in 2..MaxBackBuffers :
           dr = [m_backBufferIndex |-> 0,
                 m_backBufferCount |-> n,
                 m_fenceValues     |-> [i \in 0..(n - 1) |-> 0],
                 m_outputSize      |-> <<1, 1>>]
    /\ gpu = [queue |-> <<>>, drFence |-> 0, gameFence |-> 0]
    /\ m_fence = "null"
    /\ m_fenceEvent = FALSE
    /\ m_cbMappedData = "null"
    /\ m_projectionMatrix = <<0, 0>>
    /\ render = NoRender
    /\ signalled = <<>>
    /\ cbWrite = NoCbWrite
    /\ c_numDrawCalls \in 1..MaxNumDrawCalls
    /\ invalidUses = {}
    /\ camera = NoCamera
    /\ update = UpdateIdle
    /\ shader = ShaderIdle
    /\ probe = ProbeIdle

\* Game::Initialize(window, width, height)
Initialize ==
    /\ pc = "constructed"
    /\ \E size \in Sizes :
        LET w0 == [dr |-> [dr EXCEPT !.m_outputSize = size], gpu |-> gpu]
            w1 == DR_CreateDeviceResources(w0)
            w2 == CreateDeviceDependentResources(w1)
            w3 == DR_CreateWindowSizeDependentResources(w2)
            w4 == CreateWindowSizeDependentResources(w3)
        IN  /\ dr' = w4.dr
            /\ gpu' = w4.gpu
            /\ m_projectionMatrix' = Perspective(size)
    /\ LET g0 == GameObjects(m_fence, m_cbMappedData, m_fenceEvent, invalidUses)
           g1 == CreateFenceEvent(SignalOnResize(CreateDeviceObjects(g0)))
       IN  /\ m_fence' = g1.m_fence
           /\ m_cbMappedData' = g1.m_cbMappedData
           /\ m_fenceEvent' = g1.m_fenceEvent
           /\ invalidUses' = g1.invalidUses
    /\ camera' = InitializeCamera
    /\ signalled' = <<>>
    /\ trace' = ResizeCalls
    /\ lastCall' = "Initialize"
    /\ pc' = "idle"
    /\ UNCHANGED <<m_frameCount, render, cbWrite, c_numDrawCalls,
                   update, shader, probe>>

\* Game::Tick: the timer runs Update once (variable time step) on the input
\* polled, then Render starts and runs up to its first blocking point.
Tick ==
    /\ pc = "idle"
    /\ dr.m_fenceValues[dr.m_backBufferIndex] < MaxFenceValue
    /\ m_frameCount' = m_frameCount + 1
    /\ \E in \in TickInputs :
        LET r == RenderBegin(m_frameCount', GetCurrentFrameIndex(dr),
                             GetBackBufferCount(dr), gpu.gameFence)
        IN  /\ camera' = Update(camera, in.keyboard, in.mouse, in.elapsedTime)
            /\ pc' = r.pc
            /\ trace' = UpdateCalls(in.keyboard) \o r.trace
            /\ render' = r.locals
            /\ invalidUses' =
                   RenderFenceUses(GameObjects(m_fence, m_cbMappedData, m_fenceEvent,
                                               invalidUses), r).invalidUses
    /\ lastCall' = "Tick"
    /\ UNCHANGED <<dr, gpu, m_fence, m_fenceEvent, m_cbMappedData,
                   m_projectionMatrix, signalled, cbWrite, c_numDrawCalls,
                   update, shader, probe>>

\* Render, lines 152-205: the fence wait (if entered) returns, the frame is
\* recorded, the constant-buffer slot written, the draw issued and the frame
\* presented; Present submits the frame, signals the device fence and moves
\* to the next back buffer.
RenderDraw ==
    /\ pc \in {"fenceWait", "prepare"}
    /\ pc = "fenceWait" => WaitReturns(gpu.gameFence, render.waitValue)
    /\ LET cbIndex == CbIndex(c_numDrawCalls, render.frameIdx, render.numBackBuffers)
           i       == dr.m_backBufferIndex
           fv      == dr.m_fenceValues[i]
       IN  /\ cbWrite' = [cbIndex  |-> cbIndex,
                          slots    |-> CbSlots(c_numDrawCalls, GetBackBufferCount(dr)),
                          inFlight |-> SlotInFlight(gpu, cbIndex),
                          mapped   |-> m_cbMappedData = "mapped",
                          count    |-> 1]
           /\ gpu' = Submit(Submit(gpu, "frame", cbIndex), "drSignal", fv)
           /\ dr' = [dr EXCEPT !.m_backBufferIndex = (i + 1) % dr.m_backBufferCount]
           /\ render' = [render EXCEPT !.currentFenceValue = fv]
    /\ invalidUses' =
           UseCbMappedData(GameObjects(m_fence, m_cbMappedData, m_fenceEvent,
                                       invalidUses), "memcpy").invalidUses
    /\ trace' = trace \o RenderCalls
    /\ pc' = "presentWait"
    /\ UNCHANGED <<lastCall, m_frameCount, m_fence, m_fenceEvent, m_cbMappedData,
                   m_projectionMatrix, signalled, c_numDrawCalls,
                   camera, update, shader, probe>>

\* Render, lines 205-213: Present returns once the next back buffer is free
\* again, then Render signals m_fence with the frame index it read.
RenderFinish ==
    /\ pc = "presentWait"
    /\ gpu.drFence >= dr.m_fenceValues[dr.m_backBufferIndex]
    /\ dr' = [dr EXCEPT !.m_fenceValues[dr.m_backBufferIndex] =
                            render.currentFenceValue + 1]
    /\ gpu' = Submit(gpu, "gameSignal", FenceValue(RenderSignalValue(render.frameIdx)))
    /\ signalled' = Append(signalled, FenceValue(RenderSignalValue(render.frameIdx)))
    /\ invalidUses' =
           UseFence(GameObjects(m_fence, m_cbMappedData, m_fenceEvent, invalidUses),
                    "Signal").invalidUses
    /\ trace' = Append(trace, "Signal")
    /\ pc' = "idle"
    /\ UNCHANGED <<lastCall, m_frameCount, m_fence, m_fenceEvent, m_cbMappedData,
                   m_projectionMatrix, render, cbWrite, c_numDrawCalls,
                   camera, update, shader, probe>>

\* The GPU executes the next entry of the command queue.
GpuStep ==
    /\ gpu.queue # <<>>
    /\ gpu' = GpuExecHead(gpu)
    /\ UNCHANGED <<pc, lastCall, trace, m_frameCount, dr, m_fence, m_fenceEvent,
                   m_cbMappedData, m_projectionMatrix, render, signalled, cbWrite,
                   c_numDrawCalls, invalidUses, camera, update, shader, probe>>

\* Game::OnWindowSizeChanged(width, height)
OnWindowSizeChanged ==
    /\ pc = "idle"
    /\ dr.m_fenceValues[dr.m_backBufferIndex] < MaxFenceValue
    /\ \E size \in Sizes :
        LET w0 == [dr |-> dr, gpu |-> gpu]
            w1 == DR_WindowSizeChanged(w0, size)
        IN  IF ~DR_SizeChanges(dr, size)
            THEN /\ trace' = <<>>
                 /\ UNCHANGED <<dr, gpu, m_projectionMatrix, signalled, invalidUses>>
            ELSE LET w2 == CreateWindowSizeDependentResources(w1)
                 IN  /\ dr' = w2.dr
                     /\ gpu' = w2.gpu
                     /\ m_projectionMatrix' = Perspective(w2.dr.m_outputSize)
                     /\ signalled' = <<>>
                     /\ invalidUses' =
                            SignalOnResize(GameObjects(m_fence, m_cbMappedData,
                                                       m_fenceEvent,
                                                       invalidUses)).invalidUses
                     /\ trace' = ResizeCalls
    /\ lastCall' = "OnWindowSizeChanged"
    /\ UNCHANGED <<pc, m_frameCount, m_fence, m_fenceEvent, m_cbMappedData, render,
                   cbWrite, c_numDrawCalls, camera, update, shader, probe>>

\* Game::OnWindowMoved: WindowSizeChanged with the current output size; its
\* result is ignored.
OnWindowMoved ==
    /\ pc = "idle"
    /\ LET w1 == DR_WindowSizeChanged([dr |-> dr, gpu |-> gpu], dr.m_outputSize)
       IN  /\ dr' = w1.dr
           /\ gpu' = w1.gpu
    /\ trace' = <<>>
    /\ lastCall' = "OnWindowMoved"
    /\ UNCHANGED <<pc, m_frameCount, m_fence, m_fenceEvent, m_cbMappedData,
                   m_projectionMatrix, render, signalled, cbWrite, c_numDrawCalls,
                   invalidUses, camera, update, shader, probe>>

\* Game::OnResuming: resets the timer's elapsed time only.
OnResuming ==
    /\ pc = "idle"
    /\ trace' = <<>>
    /\ lastCall' = "OnResuming"
    /\ UNCHANGED <<pc, m_frameCount, dr, gpu, m_fence, m_fenceEvent, m_cbMappedData,
                   m_projectionMatrix, render, signalled, cbWrite, c_numDrawCalls,
                   invalidUses, camera, update, shader, probe>>

\* Game::OnDeviceLost immediately followed by Game::OnDeviceRestored, with
\* the device and the swap chain rebuilt in between.
OnDeviceLostRestored ==
    /\ pc = "idle"
    /\ dr.m_fenceValues[dr.m_backBufferIndex] + 2 < MaxFenceValue
    /\ LET w0 == [dr |-> dr, gpu |-> gpu]
           w1 == DR_CreateDeviceResources(w0)
           w2 == DR_CreateWindowSizeDependentResources(w1)
           w3 == CreateDeviceDependentResources(w2)
           w4 == CreateWindowSizeDependentResources(w3)
       IN  /\ dr' = w4.dr
           /\ gpu' = w4.gpu
           /\ m_projectionMatrix' = Perspective(w4.dr.m_outputSize)
    /\ LET g0 == GameObjects(m_fence, m_cbMappedData, m_fenceEvent, invalidUses)
           g1 == OnDeviceRestored(OnDeviceLost(g0))
       IN  /\ m_fence' = g1.m_fence
           /\ m_cbMappedData' = g1.m_cbMappedData
           /\ invalidUses' = g1.invalidUses
    /\ camera' = InitializeCamera
    /\ signalled' = <<>>
    /\ trace' = ResizeCalls
    /\ lastCall' = "OnDeviceRestored"
    /\ UNCHANGED <<pc, m_frameCount, m_fenceEvent, render, cbWrite, c_numDrawCalls,
                   update, shader, probe>>

Next ==
    \/ Initialize
    \/ Tick
    \/ RenderDraw
    \/ RenderFinish
    \/ GpuStep
    \/ OnWindowSizeChanged
    \/ OnWindowMoved
    \/ OnResuming
    \/ OnDeviceLostRestored

Spec == Init /\ [][Next]_vars

\* The GPU keeps executing what is queued, and the CPU thread keeps running
\* a Render call it has started.
Fairness ==
    /\ WF_vars(GpuStep)
    /\ WF_vars(RenderDraw)
    /\ WF_vars(RenderFinish)

SpecFair == Spec /\ Fairness

-----------------------------------------------------------------------------
(* Render as a function of its inputs: one call of Game::Render with an      *)
(* arbitrary frame count, frame index, back-buffer count and fence value.    *)

ProbeInputs ==
    [frameCount     : 0..1,
     frameIdx       : 0..MaxFrameIdx,
     numBackBuffers : 1..MaxBackBuffers,
     numDrawCalls   : 1..MaxNumDrawCalls,
     completedValue : 0..MaxFrameIdx]

Max(a, b) == IF a >= b THEN a ELSE b

GameIdle ==
    /\ pc = "constructed"
    /\ lastCall = "Game"
    /\ trace = <<>>
    /\ m_frameCount = 0
    /\ dr = [m_backBufferIndex |-> 0, m_backBufferCount |-> 2,
             m_fenceValues |-> [i \in 0..1 |-> 0], m_outputSize |-> <<1, 1>>]
    /\ gpu = [queue |-> <<>>, drFence |-> 0, gameFence |-> 0]
    /\ m_fence = "null"
    /\ m_fenceEvent = FALSE
    /\ m_cbMappedData = "null"
    /\ m_projectionMatrix = <<0, 0>>
    /\ render = NoRender
    /\ signalled = <<>>
    /\ cbWrite = NoCbWrite
    /\ c_numDrawCalls = 1
    /\ invalidUses = {}
    /\ update = UpdateIdle

InitRender ==
    /\ GameIdle
    /\ camera = NoCamera
    /\ shader = ShaderIdle
    /\ \E in \in ProbeInputs :
           probe = [pc |-> "call", in |-> in, fence |-> in.completedValue,
                    fenceSeen |-> in.completedValue, trace |-> <<>>,
                    locals |-> NoRender, cbWritten |-> FALSE, cbIndex |-> 0,
                    signals |-> <<>>]

\* Render is called: lines 138-154 up to the wait.
ProbeRender ==
    /\ probe.pc = "call"
    /\ LET r == RenderBegin(probe.in.frameCount, probe.in.frameIdx,
                            probe.in.numBackBuffers, probe.in.completedValue)
       IN  probe' = [probe EXCEPT !.pc = r.pc, !.trace = r.trace,
                                  !.locals = r.locals]
    /\ UNCHANGED <<gameVars, shader>>

\* The GPU executes a queued Signal: the fence takes another value.
ProbeGpu ==
    /\ probe.pc \in {"fenceWait", "prepare"}
    /\ \E v \in 0..MaxFrameIdx :
        /\ v # probe.fence
        /\ probe' = [probe EXCEPT !.fence = v, !.fenceSeen = Max(@, v)]
    /\ UNCHANGED <<gameVars, shader>>

\* The wait (if entered) returns and Render runs to its end, lines 157-213.
ProbeRenderDraw ==
    /\ probe.pc \in {"fenceWait", "prepare"}
    /\ probe.pc = "fenceWait" => WaitReturns(probe.fence, probe.locals.waitValue)
    /\ probe' = [probe EXCEPT
                   !.pc = "idle",
                   !.cbWritten = TRUE,
                   !.cbIndex = CbIndex(probe.in.numDrawCalls, probe.in.frameIdx,
                                       probe.in.numBackBuffers),
                   !.trace = (@ \o RenderCalls) \o <<"Signal">>,
                   !.signals = <<FenceValue(RenderSignalValue(probe.in.frameIdx))>>]
    /\ UNCHANGED <<gameVars, shader>>

NextRender == ProbeRender \/ ProbeGpu \/ ProbeRenderDraw

SpecRender == InitRender /\ [][NextRender]_vars

-----------------------------------------------------------------------------
(* Properties *)

FrameCalls == {"Prepare", "Clear", "DrawIndexedInstanced", "Present", "Signal"}
IsFrameCall(c) == c \in FrameCalls
FrameCallsOf(t) == SelectSeq(t, IsFrameCall)
InRender == pc \in {"fenceWait", "prepare", "presentWait"}

\* C1: every Render call that passes the first-update guard issues Prepare,
\* Clear, one DrawIndexedInstanced, Present and one Signal on m_fence, in
\* this order and once each; there is no second draw in the frame.
C1_RenderCallOrder ==
    /\ (lastCall = "Tick" /\ pc = "idle" /\ RenderGuard(m_frameCount)) =>
           FrameCallsOf(trace) =
               <<"Prepare", "Clear", "DrawIndexedInstanced", "Present", "Signal">>
    /\ pc = "presentWait" =>
           FrameCallsOf(trace) =
               <<"Prepare", "Clear", "DrawIndexedInstanced", "Present">>
    /\ pc \in {"fenceWait", "prepare"} => FrameCallsOf(trace) = <<>>

C1_Witness ==
    /\ lastCall = "Tick" /\ pc = "idle"
    /\ Len(signalled) >= 2
    /\ Len(trace) > 0

\* C2: with a frame count of 0 Render returns without any effect: no fence
\* value is read, nothing is recorded, no constant-buffer slot is written,
\* nothing is presented or signalled.
C2_NoRenderBeforeUpdate ==
    (probe.pc # "none" /\ probe.pc # "call" /\ probe.in.frameCount = 0) =>
        /\ probe.pc = "idle"
        /\ probe.trace = <<>>
        /\ ~probe.cbWritten
        /\ probe.signals = <<>>
        /\ probe.locals = NoRender

C2_Witness ==
    probe.pc = "idle" /\ probe.in.frameCount = 0

\* C3: for every frame index >= 0 and back-buffer count >= 1 the slot Render
\* writes, with the c_numDrawCalls slots of the frame, lies inside the ring
\* of c_numDrawCalls * numBackBuffers slots.
C3_CbIndexInRing ==
    (probe.pc # "none" /\ probe.cbWritten) =>
        /\ probe.cbIndex >= 0
        /\ probe.cbIndex + probe.in.numDrawCalls
               <= CbSlots(probe.in.numDrawCalls, probe.in.numBackBuffers)

C3_Witness ==
    /\ probe.pc = "idle" /\ probe.cbWritten
    /\ probe.in.frameIdx > probe.in.numBackBuffers
    /\ probe.cbIndex > 0

StrictlyIncreasing(q) ==
    \A i \in 1..Len(q) : \A j \in 1..Len(q) : i < j => q[i] < q[j]

\* C4: the values successive Render calls signal on m_fence are strictly
\* increasing as long as no resize or device restore happens in between.
C4_SignalsIncrease == StrictlyIncreasing(signalled)

\* C7: Render waits exactly when frameIdx > completedValue and
\* frameIdx - completedValue > numBackBuffers; the value waited for is
\* frameIdx - numBackBuffers, positive and not wrapped; when Render goes on,
\* frameIdx <= completedValue held at the check or the fence has reached
\* frameIdx - numBackBuffers.
C7_FenceWait ==
    (probe.pc \in {"fenceWait", "prepare", "idle"} /\ probe.in.frameCount > 0) =>
        LET f == probe.in.frameIdx
            n == probe.in.numBackBuffers
            c == probe.in.completedValue
        IN  /\ probe.locals.waits <=> (f > c /\ f - c > n)
            /\ probe.locals.waits <=> ("SetEventOnCompletion" \in
                                          {probe.trace[k] : k \in 1..Len(probe.trace)})
            /\ (probe.pc = "fenceWait") => probe.locals.waits
            /\ probe.locals.waits =>
                   /\ f - n > 0
                   /\ probe.locals.waitValue = <<0, 0, 0, f - n>>
            /\ probe.pc = "idle" => (f <= c \/ probe.fenceSeen >= f - n)

C7_Witness ==
    /\ probe.pc = "idle"
    /\ probe.locals.waits
    /\ probe.cbWritten
    /\ probe.in.completedValue > 0

\* C8: Render never writes a constant-buffer slot while an earlier submitted
\* frame bound to the same slot has not been completed by the GPU.
C8_NoWriteToSlotInFlight == ~cbWrite.inFlight

QueuedFrames ==
    {k \in 1..Len(gpu.queue) : gpu.queue[k].kind = "frame"}

C8_Witness ==
    /\ pc = "presentWait"
    /\ Cardinality(QueuedFrames) >= 2
    /\ cbWrite.count = 1

\* C9: Render always terminates when the GPU eventually executes what is
\* queued, for every sequence of Tick, accepted resizes and device
\* lost/restored pairs; with a frame index not greater than the completed
\* value Render does not wait.
C9_RenderTerminates ==
    /\ [](InRender => (render.frameIdx <= render.completedValue => ~render.waits))
    /\ (InRender ~> (pc = "idle"))

C9_Witness ==
    /\ pc = "presentWait"
    /\ signalled = <<>>
    /\ m_frameCount > 1
    /\ render.frameIdx < render.completedValue
    /\ gpu.drFence < dr.m_fenceValues[dr.m_backBufferIndex]

LastQueued(g) == g.queue[Len(g.queue)]

\* C10: OnWindowSizeChanged recomputes the projection matrix and signals
\* m_fence with the current frame index exactly when WindowSizeChanged
\* returns true; otherwise the matrix is unchanged and nothing is queued.
\* OnWindowMoved never recomputes the matrix and never signals the fence.
C10_ResizeEffects ==
    [][ /\ OnWindowSizeChanged =>
            IF dr'.m_outputSize # dr.m_outputSize
            THEN /\ trace' = <<"XMMatrixPerspectiveFovLH", "Signal">>
                 /\ m_projectionMatrix' = Perspective(dr'.m_outputSize)
                 /\ gpu'.queue # <<>>
                 /\ LastQueued(gpu') =
                        [kind |-> "gameSignal", value |-> dr'.m_backBufferIndex]
            ELSE /\ trace' = <<>>
                 /\ m_projectionMatrix' = m_projectionMatrix
                 /\ gpu' = gpu
        /\ OnWindowMoved =>
            /\ trace' = <<>>
            /\ m_projectionMatrix' = m_projectionMatrix
            /\ gpu' = gpu ]_vars

C10_Witness ==
    /\ lastCall = "OnWindowSizeChanged"
    /\ trace = ResizeCalls
    /\ m_frameCount > 0
    /\ gpu.queue # <<>>
    /\ LastQueued(gpu).kind = "gameSignal"

\* C11: in every run that starts with Initialize and then applies Tick,
\* OnWindowSizeChanged, OnWindowMoved, OnResuming and OnDeviceLost followed
\* at once by OnDeviceRestored in any order, no call through m_fence
\* (GetCompletedValue, SetEventOnCompletion, Signal) is made while the fence
\* is null, no write through m_cbMappedData is made while the pointer is
\* null, and the fence event a wait in Render would use is valid: once
\* Initialize has returned the event stays valid, and the fence and the
\* mapping exist whenever a handler is entered and all through Render.
C11_ObjectsExistWhenUsed ==
    /\ invalidUses = {}
    /\ cbWrite.mapped
    /\ pc # "constructed" =>
           /\ m_fenceEvent
           /\ m_fence = "created"
           /\ m_cbMappedData = "mapped"

\* A device loss and restore after a frame was rendered: the restore has
\* signalled the recreated fence, and the frame before wrote the constant
\* buffer and signalled the fence.
C11_Witness ==
    /\ lastCall = "OnDeviceRestored"
    /\ trace = ResizeCalls
    /\ m_frameCount > 0
    /\ cbWrite.count = 1
    /\ m_fence = "created"

-----------------------------------------------------------------------------
(* Update as a function of its inputs: one call of Game::Update on a camera  *)
(* the game can have reached, with arbitrary keys, mouse motion and frame    *)
(* time.                                                                     *)

\* Cameras offered to Update: the initial camera, turned and moved.
CameraStates ==
    { [InitializeCamera EXCEPT !.m_camYaw = yaw, !.m_camPitch = pitch,
                               !.m_camPosition = position] :
        yaw \in {0 - 3 * One, 0, One},
        pitch \in {(37 * One) \div 100, 0},
        position \in { <<0, 0, 200 * One>>, <<10 * One, 0 - 5 * One, 150 * One>> } }

InitUpdate ==
    /\ pc = "constructed"
    /\ lastCall = "Game"
    /\ trace = <<>>
    /\ m_frameCount = 0
    /\ dr = [m_backBufferIndex |-> 0, m_backBufferCount |-> 2,
             m_fenceValues |-> [i \in 0..1 |-> 0], m_outputSize |-> <<1, 1>>]
    /\ gpu = [queue |-> <<>>, drFence |-> 0, gameFence |-> 0]
    /\ m_fence = "null"
    /\ m_fenceEvent = FALSE
    /\ m_cbMappedData = "null"
    /\ m_projectionMatrix = <<0, 0>>
    /\ render = NoRender
    /\ signalled = <<>>
    /\ cbWrite = NoCbWrite
    /\ c_numDrawCalls = 1
    /\ invalidUses = {}
    /\ shader = ShaderIdle
    /\ probe = ProbeIdle
    /\ camera \in CameraStates
    /\ update = [pc |-> "call"]

\* Game::Update, called once.
ProbeUpdate ==
    /\ update.pc = "call"
    /\ \E keyboard \in Keyboards, mouse \in Mice, elapsedTime \in ElapsedTimes :
        /\ camera' = Update(camera, keyboard, mouse, elapsedTime)
        /\ update' = [pc |-> "updated", keyboard |-> keyboard, mouse |-> mouse,
                      elapsedTime |-> elapsedTime, before |-> camera,
                      calls |-> UpdateCalls(keyboard),
                      verticalMove |-> VerticalMove(keyboard, elapsedTime),
                      horizontalMove |-> HorizontalMove(keyboard, elapsedTime)]
    /\ UNCHANGED <<pc, lastCall, trace, m_frameCount, dr, gpu, m_fence, m_fenceEvent,
                   m_cbMappedData, m_projectionMatrix, render, signalled, cbWrite,
                   c_numDrawCalls, invalidUses, shader, probe>>

NextUpdate == ProbeUpdate

SpecUpdate == InitUpdate /\ [][NextUpdate]_vars

\* C12: after Update, the forward move is +1 when W is down (S down or not),
\* -1 when only S is down and 0 when neither is; the sideways move is -1 when
\* A is down (D down or not), +1 when only D is down and 0 when neither is;
\* each is scaled by elapsedTime * 5 and moves the camera along its forward
\* and right axes.  With none of W, A, S, D down the camera position is the
\* one before the call, and with a mouse delta of (0, 0) so are yaw and pitch.
C12_UpdateMoves ==
    update.pc = "updated" =>
        LET k       == update.keyboard
            forward == CASE k.W -> 1
                         [] ~k.W /\ k.S -> 0 - 1
                         [] ~k.W /\ ~k.S -> 0
            side    == CASE k.A -> 0 - 1
                         [] ~k.A /\ k.D -> 1
                         [] ~k.A /\ ~k.D -> 0
        IN  /\ update.verticalMove = forward * update.elapsedTime * 5
            /\ update.horizontalMove = side * update.elapsedTime * 5
            /\ camera.m_camPosition =
                   VAdd(VAdd(update.before.m_camPosition,
                             VScale(side * update.elapsedTime * 5, camera.m_camRight)),
                        VScale(forward * update.elapsedTime * 5, camera.m_camForward))
            /\ (~k.W /\ ~k.A /\ ~k.S /\ ~k.D) =>
                   camera.m_camPosition = update.before.m_camPosition
            /\ (update.mouse.x = 0 /\ update.mouse.y = 0) =>
                   /\ camera.m_camYaw = update.before.m_camYaw
                   /\ camera.m_camPitch = update.before.m_camPitch

\* Update with W and S both down and A and D both down: the camera has moved
\* forward and to the left, and the mouse has turned it.
C12_Witness ==
    /\ update.pc = "updated"
    /\ update.keyboard.W /\ update.keyboard.S
    /\ update.keyboard.A /\ update.keyboard.D
    /\ update.verticalMove > 0
    /\ update.horizontalMove < 0
    /\ camera.m_camPosition # update.before.m_camPosition
    /\ camera.m_camYaw # update.before.m_camYaw

-----------------------------------------------------------------------------
(* Shader.hlsli in fixed-point arithmetic (see One above); positions and     *)
(* distances are held as floor(x * DistScale).                               *)

DistScale == 16
ThetaSteps == 8

\* static const float near / far (hull shader)
near == 20
far == 150

\* Texture2D texMap[5] : register(t0)
TexMapSize == 5
\* texTable.Init(D3D12_DESCRIPTOR_RANGE_TYPE_SRV, 2, 0)
TexTableSize == 2
TexTableBase == 0
\* srvHeapDesc.NumDescriptors = 2
SrvHeapSize == 2
\* rootSignatureDesc.Init(..., 1, &samplerDesc, ...): one static sampler, register s0
NumStaticSamplers == 1
\* rootParameters[1].InitAsConstantBufferView(0, 0): register b0
RootCbvRegister == 0

\* What Game::CreateDeviceDependentResources binds for the draw.
BoundTextureRegisters ==
    {r \in TexTableBase..(TexTableBase + TexTableSize - 1) : r - TexTableBase < SrvHeapSize}
BoundSamplerRegisters == 0..(NumStaticSamplers - 1)
BoundCbvRegisters == {RootCbvRegister}

\* Registers of the shader's declarations: cb : b0, texMap : t0.., samAnisotropic : s0,
\* samShadow : s1.
cbRegister == 0
texMapRegister == 0
samAnisotropic == 0
samShadow == 1

\* distance(p, q)
Distance(p, q) ==
    ISqrt((p[1] - q[1]) * (p[1] - q[1]) + (p[2] - q[2]) * (p[2] - q[2])
          + (p[3] - q[3]) * (p[3] - q[3]))

\* saturate(x): clamp to [0, 1]
Saturate(x) == IF x < 0 THEN 0 ELSE IF x > One THEN One ELSE x

\* pow(s, 0.5f)
PowHalf(s) == ISqrt(s * One)

\* 2^(f / One) * One for 0 <= f < One: quadratic interpolation between 1 and 2
Pow2Frac(f) ==
    LET a == (21 * One) \div 32
        b == One - a
    IN  One + (f * (a + (b * f) \div One)) \div One

\* pow(2.0f, e) for e >= 0
Pow2(e) == (2 ^ (e \div One)) * Pow2Frac(e % One)

\* The tessellation factor with near and far exchanged.
CalcTessFactor_SwappedRange(p, cameraPosition) ==
    LET d == Distance(p, cameraPosition)
        s == Saturate(((d - far * DistScale) * One) \div ((near - far) * DistScale))
    IN  Pow2(8 * One - 8 * PowHalf(s))

\* float CalcTessFactor(float3 p)
CalcTessFactor(p, cameraPosition) ==
    LET d == Distance(p, cameraPosition)
        s == Saturate(((d - near * DistScale) * One) \div ((far - near) * DistScale))
    IN  Pow2(8 * One - 8 * PowHalf(s))

\* normalize(v) * 150.0f for a float4 v = (x, y, z, 1) (a patch position),
\* truncated to float3 by the assignment
Normalize4Times150(v) ==
    LET len == ISqrt(v[1] * v[1] + v[2] * v[2] + v[3] * v[3] + DistScale * DistScale)
    IN  [j \in 1..3 |-> (v[j] * 150 * DistScale) \div len]

\* normalize(v) * 150.0f for a float3 v
Normalize3Times150(v) ==
    LET len == ISqrt(v[1] * v[1] + v[2] * v[2] + v[3] * v[3])
    IN  [j \in 1..3 |-> (v[j] * 150 * DistScale) \div len]

\* mul(float4(v, 1.0f), m).xyz for a matrix m with integer entries
MulPoint(v, m) ==
    [j \in 1..3 |-> v[1] * m[1][j] + v[2] * m[2][j] + v[3] * m[3][j]
                     + DistScale * m[4][j]]

\* cb.worldMatrix as Game sets it: XMMatrixIdentity()
XMMatrixIdentity == << <<1, 0, 0>>, <<0, 1, 0>>, <<0, 0, 1>>, <<0, 0, 0>> >>

\* ConstantHS, lines 94-106: the points whose distance to the camera sets
\* the factors: the edge midpoints e0..e3 and the centre c, on or inside the
\* sphere of radius 150.
HSPoints(patch, worldMatrix) ==
    LET localPos == [j \in 1..3 |->
                        (patch[1][j] + patch[2][j] + patch[3][j] + patch[4][j]) \div 4]
        worldPos == MulPoint(localPos, worldMatrix)
        p0 == Normalize4Times150(patch[1])
        p1 == Normalize4Times150(patch[2])
        p2 == Normalize4Times150(patch[3])
        p3 == Normalize4Times150(patch[4])
        e0 == [j \in 1..3 |-> (p0[j] + p2[j]) \div 2]
        e1 == [j \in 1..3 |-> (p0[j] + p1[j]) \div 2]
        e2 == [j \in 1..3 |-> (p1[j] + p3[j]) \div 2]
        e3 == [j \in 1..3 |-> (p2[j] + p3[j]) \div 2]
        c  == Normalize3Times150(worldPos)
    IN  <<e0, e1, e2, e3, c>>

\* PatchTess ConstantHS(patch, patchID)
ConstantHS(patch, worldMatrix, cameraPosition) ==
    LET pts == HSPoints(patch, worldMatrix)
    IN  [edgeTess   |-> [i \in 1..4 |-> CalcTessFactor(pts[i], cameraPosition)],
         insideTess |-> <<CalcTessFactor(pts[5], cameraPosition),
                          CalcTessFactor(pts[5], cameraPosition)>>]

\* round(num / den), halfway cases to the even integer
Round(num, den) ==
    LET q == num \div den
        r == num % den
    IN  IF 2 * r > den THEN q + 1
        ELSE IF 2 * r < den THEN q
        ELSE IF q % 2 = 0 THEN q ELSE q + 1

\* theta = atan2(z, x), in units of PI / ThetaSteps: t in -(ThetaSteps-1)..ThetaSteps;
\* theta = sign(theta) == -1 ? 2 * PI + theta : theta;
\* gTexCoord.x = theta / (2 * PI), in units of 1 / (2 * ThetaSteps).
GTexCoordX(t) == IF t < 0 THEN 2 * ThetaSteps + t ELSE t

UDen == 2 * ThetaSteps

\* DS, lines 174-178: texture index, remapped coordinate, the texture and
\* sampler registers read.
DS(t) ==
    LET u        == GTexCoordX(t)
        texIndex == Round(u, UDen) + 2
        sx       == IF texIndex = 0 THEN u * 2 ELSE (u - UDen \div 2) * 2
    IN  [stage |-> "DS", t |-> t, u |-> u, texIndex |-> texIndex, sTexCoordX |-> sx,
         textures |-> {texMapRegister + texIndex},
         samplers |-> {samAnisotropic},
         cbuffers |-> {cbRegister}]

\* PS, lines 269-305 (with GetNormalFromHeight and CalcShadowFactor): texture
\* index, remapped coordinate, the texture and sampler registers read.
PS(t) ==
    LET u        == GTexCoordX(t)
        texIndex == Round(u, UDen)
        sx       == IF texIndex = 0 THEN u * 2 ELSE (u - UDen \div 2) * 2
    IN  [stage |-> "PS", t |-> t, u |-> u, texIndex |-> texIndex, sTexCoordX |-> sx,
         textures |-> {texMapRegister + texIndex + 2, texMapRegister + texIndex,
                       texMapRegister + 4},
         samplers |-> {samAnisotropic, samShadow},
         cbuffers |-> {cbRegister}]

\* Patch points and camera positions the hull shader is evaluated on.
\* GeometryGenerator::CreateQuadBox(300.0f, 300.0f, 300.0f, 6): a cube of
\* width 300 around the origin, each face cut into 6 x 6 quad patches.
QuadBoxWidth == 300
QuadBoxSubdivisions == 6

\* Corner k of the cells along an edge.
CellCorner(k) ==
    (k * QuadBoxWidth * DistScale) \div QuadBoxSubdivisions
        - (QuadBoxWidth * DistScale) \div 2

\* The four control points of the cell (a, b) of a face, by the face's map
\* from face coordinates to space.
FacePatch(face, a, b) ==
    LET h == (QuadBoxWidth * DistScale) \div 2
        P(u, v) == CASE face = "+z" -> <<u, v, h>>
                     [] face = "+x" -> <<h, u, v>>
    IN  <<P(CellCorner(a), CellCorner(b)), P(CellCorner(a + 1), CellCorner(b)),
          P(CellCorner(a), CellCorner(b + 1)), P(CellCorner(a + 1), CellCorner(b + 1))>>

\* Patches of two faces of the cube: towards the initial camera and sideways.
Patches ==
    { FacePatch(face, a, b) : face \in {"+z", "+x"},
                              a \in 0..(QuadBoxSubdivisions - 1),
                              b \in 0..(QuadBoxSubdivisions - 1) }

\* Camera positions: the initial one, and one close to the surface.
CameraPositions == { <<0, 0, 200>>, <<24, 0, 150>> }
Thetas == (1 - ThetaSteps)..ThetaSteps

InitShader ==
    /\ GameIdle
    /\ camera = NoCamera
    /\ probe = ProbeIdle
    /\ shader = ShaderIdle

\* The constant hull shader runs on a patch; d records the distances of the
\* points of the six factors to the camera.
HullShader ==
    /\ \E patch \in Patches : \E c \in CameraPositions :
        LET cameraPosition == [j \in 1..3 |-> c[j] * DistScale]
            pts == HSPoints(patch, XMMatrixIdentity)
            out == ConstantHS(patch, XMMatrixIdentity, cameraPosition)
        IN  shader' = [stage |-> "HS", patch |-> patch,
                       cameraPosition |-> cameraPosition, points |-> pts,
                       d |-> [i \in 1..6 |->
                                 Distance(pts[IF i = 6 THEN 5 ELSE i], cameraPosition)],
                       edgeTess |-> out.edgeTess, insideTess |-> out.insideTess]
    /\ UNCHANGED <<gameVars, probe>>

DomainShader ==
    /\ \E t \in Thetas : shader' = DS(t)
    /\ UNCHANGED <<gameVars, probe>>

PixelShader ==
    /\ \E t \in Thetas : shader' = PS(t)
    /\ UNCHANGED <<gameVars, probe>>

NextShader == HullShader \/ DomainShader \/ PixelShader

SpecShader == InitShader /\ [][NextShader]_vars

\* C5: each of the six tessellation factors is 2^(8 - 8 * sqrt(s)) of the
\* distance d of its point to the camera, with
\* s = clamp((d - 20) / (150 - 20), 0, 1): 256 for d <= 20, 1 for d >= 150,
\* always within [1, 256]; and over all points, of one patch or of two, it
\* depends on d only and never increases when d increases.
C5_TessFactor ==
    /\ [](shader.stage = "HS" =>
            LET tess == shader.edgeTess \o shader.insideTess
            IN  \A i \in 1..6 :
                LET d == shader.d[i]
                    s == Saturate(((d - 20 * DistScale) * One)
                                  \div ((150 - 20) * DistScale))
                    e == 8 * One - 8 * ISqrt(s * One)
                IN  /\ d <= 20 * DistScale => tess[i] = 256 * One
                    /\ d >= 150 * DistScale => tess[i] = 1 * One
                    /\ tess[i] >= 1 * One /\ tess[i] <= 256 * One
                    /\ tess[i] >= (2 ^ (e \div One)) * One
                    /\ e < 8 * One => tess[i] < (2 ^ (e \div One + 1)) * One
                    /\ \A k \in 1..6 :
                           /\ shader.d[k] >= d => tess[k] <= tess[i]
                           /\ shader.d[k] = d => tess[k] = tess[i])
    /\ [][(shader.stage = "HS" /\ shader'.stage = "HS") =>
            LET tess == shader.edgeTess \o shader.insideTess
                next == shader'.edgeTess \o shader'.insideTess
            IN  \A i, k \in 1..6 :
                    /\ shader'.d[k] >= shader.d[i] => next[k] <= tess[i]
                    /\ shader'.d[k] = shader.d[i] => next[k] = tess[i]]_vars

\* A patch with an edge factor strictly between the plateaus, an edge at
\* the near plateau and the two inside factors equal.
C5_Witness ==
    /\ shader.stage = "HS"
    /\ \E i \in 1..4 :
           /\ shader.d[i] > 20 * DistScale /\ shader.d[i] < 150 * DistScale
           /\ shader.edgeTess[i] > 1 * One /\ shader.edgeTess[i] < 256 * One
    /\ \E i \in 1..4 : shader.d[i] <= 20 * DistScale /\ shader.edgeTess[i] = 256 * One
    /\ shader.insideTess[1] = shader.insideTess[2]

\* C6: every texture, sampler and constant-buffer register the shader
\* stages read lies inside what CreateDeviceDependentResources binds: two
\* SRVs from t0, one root CBV at b0, one static sampler at s0.
C6_ReadsAreBound ==
    shader.stage \in {"DS", "PS"} =>
        /\ shader.textures \subseteq BoundTextureRegisters
        /\ shader.samplers \subseteq BoundSamplerRegisters
        /\ shader.cbuffers \subseteq BoundCbvRegisters

\* C13: for every surface direction the domain shader and the pixel shader
\* split u = theta / (2*PI) the same way: both read the height texture
\* round(u) + 2, which is 2 or 3, and both compute the same sTexCoord.x,
\* equal to 2*u on the first half (u < 0.5) and to 2*(u - 0.5) on the second
\* half, which lies in [0, 1].  (u and sTexCoord.x are held as numerators
\* over UDen.)
C13_SameSplit ==
    shader.stage \in {"DS", "PS"} =>
        LET other  == IF shader.stage = "DS" THEN PS(shader.t) ELSE DS(shader.t)
            Height(s) == IF s.stage = "DS" THEN s.texIndex ELSE s.texIndex + 2
            u      == shader.u
        IN  /\ Height(shader) = Height(other)
            /\ Height(shader) = Round(u, UDen) + 2
            /\ Height(shader) \in {2, 3}
            /\ shader.sTexCoordX = other.sTexCoordX
            /\ shader.sTexCoordX = IF 2 * u < UDen THEN 2 * u ELSE 2 * (u - UDen \div 2)
            /\ shader.sTexCoordX >= 0 /\ shader.sTexCoordX <= UDen

====
